---- MODULE Spec2Model ----
(***************************************************************************)
(* Model of src/src/tokio.rs: the process-wide, set-once tokio runtime     *)
(* handle (TOKIO_RUNTIME_HANDLE), the five initialisation entry points,    *)
(* the keep-alive driver thread of the current-thread configuration, and   *)
(* the task bridge (TokioRuntime::spawn, run_until_complete,               *)
(* into_coroutine).                                                        *)
(*                                                                         *)
(* Caller threads execute the public functions step by step; every step    *)
(* that touches shared state (the cell, a runtime, the set of OS threads,  *)
(* the task queues, the foreign execution lock) is one action, so that     *)
(* all interleavings of concurrent callers are explored.                   *)
(***************************************************************************)
EXTENDS Naturals, Sequences, FiniteSets

\* ---------------------------------------------------------------- bounds
MaxCalls == 3            \* public-function calls made in one behaviour
MaxSpawns == 2           \* tasks spawned in one behaviour

\* Every call runs in a thread of its own, and the threads are numbered in
\* the order in which their calls begin: up to MaxCalls calls may be under
\* way at once.  (A thread that makes a second call after its first has
\* returned behaves as a new thread: no thread-local state outlives a call.)
Threads == 1..MaxCalls
Values == {41, 42}       \* task values and failure payloads

\* ------------------------------------------------------------- constants
None == 0                \* Option::None: the value of an unset cell

EXPECT_TOKIO_INIT == "Tokio runtime must be initialized"
EXPECT_NOT_INIT == "Tokio Runtime has already been initialized"
EXPECT_BUILD_CT == "Couldn't build the current-thread Tokio runtime"
EXPECT_BUILD_MT == "Couldn't build the multi-thread Tokio runtime"

VARIABLES
    TOKIO_RUNTIME_HANDLE,  \* the OnceCell<Handle>: [state, val]
    runtimes,              \* every Runtime built so far: id -> [kind, alive]
    pc,                    \* per caller thread: position in the current call
    op,                    \* per caller thread: the public function it runs
    loc,                   \* per caller thread: the locals of the call
    result,                \* per caller thread: how the last call ended
    drivers,               \* keep-alive threads started by start_current_thread
    tasks,                 \* every task spawned through a handle
    futures,               \* every BridgeFuture created by into_coroutine
    gil,                   \* holder of the foreign execution lock
    calls,                 \* number of public calls begun
    writes                 \* log of the stores into TOKIO_RUNTIME_HANDLE

vars == <<TOKIO_RUNTIME_HANDLE, runtimes, pc, op, loc, result, drivers,
          tasks, futures, gil, calls, writes>>

\* ------------------------------------------------- once_cell::sync::OnceCell
\* A cell is incomplete, running (one thread is inside a get_or_init
\* closure; set and get_or_init of other threads wait) or complete.
OnceCell_new == [state |-> "incomplete", val |-> None]

OnceCell_get(c) == IF c.state = "complete" THEN c.val ELSE None

\* set: Ok (the value stored) only on an incomplete cell, else Err and the
\* cell is left as it is.
OnceCell_set_ok(c) == c.state = "incomplete"

OnceCell_set(c, v) ==
    IF c.state = "incomplete" THEN [state |-> "complete", val |-> v] ELSE c

\* ------------------------------------------------------------- runtimes
\* A Runtime owns its executor: dropping the Runtime value shuts the
\* executor down, and the Handles cloned from it then refer to an executor
\* that runs nothing.
current_thread == [kind |-> "current_thread", alive |-> TRUE]

multi_thread == [kind |-> "multi_thread", alive |-> TRUE]

\* The runtime behind a Handle passed to init by the caller; the caller owns
\* and drives it (e.g. Handle::current() inside #[tokio::main]).
external_runtime == [kind |-> "external", alive |-> TRUE]

DropRuntime(rts, id) == [rts EXCEPT ![id].alive = FALSE]

\* The runtime a handle refers to (a handle that refers to none runs nothing).
RuntimeOf(rts, h) ==
    IF h \in DOMAIN rts THEN rts[h] ELSE [kind |-> "none", alive |-> FALSE]

\* ------------------------------------------------------------- results
NoReport == [cat |-> "none", val |-> None]

NoResult == [kind |-> "none", msg |-> "", val |-> None, rep |-> NoReport]

Ok(v) == [kind |-> "ok", msg |-> "", val |-> v, rep |-> NoReport]

Panic(m) == [kind |-> "panic", msg |-> m, val |-> None, rep |-> NoReport]

Reported(r) == [kind |-> "ok", msg |-> "", val |-> None, rep |-> r]

\* The locals of a call: the runtime it built, the flag of
\* init_current_thread_once, the task it spawned, and the state in which
\* set or get_or_init found the cell.
NoLoc == [rt |-> None, initialized |-> FALSE, task |-> None, seen |-> "none"]

Init ==
    /\ TOKIO_RUNTIME_HANDLE = OnceCell_new
    /\ runtimes = <<>>
    /\ pc = [t \in Threads |-> "idle"]
    /\ op = [t \in Threads |-> "none"]
    /\ loc = [t \in Threads |-> NoLoc]
    /\ result = [t \in Threads |-> NoResult]
    /\ drivers = <<>>
    /\ tasks = <<>>
    /\ futures = <<>>
    /\ gil = None
    /\ calls = 0
    /\ writes = <<>>

\* ------------------------------------------------------ frame helpers
Begin(t, name) ==
    /\ pc[t] = "idle"
    /\ t = calls + 1
    /\ calls' = calls + 1
    /\ op' = [op EXCEPT ![t] = name]

Goto(t, next) == pc' = [pc EXCEPT ![t] = next]

Return(t, r) ==
    /\ pc' = [pc EXCEPT ![t] = "done"]
    /\ result' = [result EXCEPT ![t] = r]

\* A store into the static cell; the log records every change of its value.
Store(t, c) ==
    /\ TOKIO_RUNTIME_HANDLE' = c
    /\ writes' = IF c.val # TOKIO_RUNTIME_HANDLE.val
                 THEN Append(writes, [by |-> t, h |-> c.val])
                 ELSE writes

\* Runtime::drop: the executor stops; tasks still queued on it are dropped
\* unpolled (their JoinHandle reports a cancelled JoinError).
Shutdown(ts, id) ==
    [i \in 1..Len(ts) |->
        IF ts[i].rt = id /\ ts[i].st = "queued"
        THEN [ts[i] EXCEPT !.st = "aborted"]
        ELSE ts[i]]

\* ------------------------------------------------------------- init
\* init: TOKIO_RUNTIME_HANDLE.set(runtime).expect(..)
\* (bug variant: the handle is stored whatever the cell holds)
init_cell_overwrite(c, runtime) == [state |-> "complete", val |-> runtime]

init_cell(c, runtime) == OnceCell_set(c, runtime)

\* (bug variant: the Err of set is ignored)
init_panics_never(c) == FALSE

init_panics(c) == ~OnceCell_set_ok(c)

\* pub fn init(runtime: Handle), called with a handle of the caller's own
\* runtime.
init(t) ==
    /\ Begin(t, "init")
    /\ TOKIO_RUNTIME_HANDLE.state # "running"
    /\ LET h == Len(runtimes) + 1 IN
       /\ runtimes' = Append(runtimes, external_runtime)
       /\ loc' = [loc EXCEPT ![t] =
                      [NoLoc EXCEPT !.rt = h,
                                    !.seen = TOKIO_RUNTIME_HANDLE.state]]
       /\ Store(t, init_cell(TOKIO_RUNTIME_HANDLE, h))
    /\ Return(t, IF init_panics(TOKIO_RUNTIME_HANDLE)
                 THEN Panic(EXPECT_NOT_INIT) ELSE Ok(None))
    /\ UNCHANGED <<drivers, tasks, futures, gil>>

\* ------------------------------------------------ init_current_thread
\* current_thread(): Builder::build().expect(..) either yields a Runtime or
\* panics.
init_current_thread(t) ==
    /\ Begin(t, "init_current_thread")
    /\ \E built \in BOOLEAN :
        IF built
        THEN /\ runtimes' = Append(runtimes, current_thread)
             /\ loc' = [loc EXCEPT ![t] = [NoLoc EXCEPT !.rt = Len(runtimes) + 1]]
             /\ Goto(t, "ict_init")
             /\ result' = [result EXCEPT ![t] = NoResult]
        ELSE /\ Return(t, Panic(EXPECT_BUILD_CT))
             /\ loc' = [loc EXCEPT ![t] = NoLoc]
             /\ UNCHANGED runtimes
    /\ UNCHANGED <<TOKIO_RUNTIME_HANDLE, drivers, tasks, futures, gil, writes>>

\* init(current_thread().handle().clone()): the Runtime is a temporary of
\* this statement.  When init panics the unwinding drops it.
ict_init(t) ==
    /\ pc[t] = "ict_init"
    /\ TOKIO_RUNTIME_HANDLE.state # "running"
    /\ Store(t, init_cell(TOKIO_RUNTIME_HANDLE, loc[t].rt))
    /\ IF init_panics(TOKIO_RUNTIME_HANDLE)
       THEN /\ Return(t, Panic(EXPECT_NOT_INIT))
            /\ runtimes' = DropRuntime(runtimes, loc[t].rt)
            /\ tasks' = Shutdown(tasks, loc[t].rt)
       ELSE /\ Goto(t, "ict_drop")
            /\ UNCHANGED <<result, runtimes, tasks>>
    /\ loc' = [loc EXCEPT ![t].seen = TOKIO_RUNTIME_HANDLE.state]
    /\ UNCHANGED <<op, drivers, futures, gil, calls>>

\* The end of the statement (line 88): the temporary Runtime is dropped.
ict_drop(t) ==
    /\ pc[t] = "ict_drop"
    /\ runtimes' = DropRuntime(runtimes, loc[t].rt)
    /\ tasks' = Shutdown(tasks, loc[t].rt)
    /\ Goto(t, "ict_start")
    /\ UNCHANGED <<TOKIO_RUNTIME_HANDLE, op, loc, result, drivers, futures,
                   gil, calls, writes>>

\* start_current_thread(): thread::spawn of the keep-alive closure.
start_current_thread(t) ==
    Append(drivers, [by |-> t, rt |-> loc[t].rt, pc |-> "spawned", h |-> None])

ict_start(t) ==
    /\ pc[t] = "ict_start"
    /\ drivers' = start_current_thread(t)
    /\ Return(t, Ok(None))
    /\ UNCHANGED <<TOKIO_RUNTIME_HANDLE, runtimes, op, loc, tasks, futures,
                   gil, calls, writes>>

\* The keep-alive thread: TOKIO_RUNTIME_HANDLE.get().unwrap() and then
\* block_on(pending()), which never returns.
driver_run(d) ==
    /\ d \in 1..Len(drivers)
    /\ drivers[d].pc = "spawned"
    /\ LET h == OnceCell_get(TOKIO_RUNTIME_HANDLE) IN
       drivers' = [drivers EXCEPT ![d] =
                      IF h = None
                      THEN [@ EXCEPT !.pc = "panicked"]
                      ELSE [@ EXCEPT !.pc = "blocked", !.h = h]]
    /\ UNCHANGED <<TOKIO_RUNTIME_HANDLE, runtimes, pc, op, loc, result,
                   tasks, futures, gil, calls, writes>>

\* ------------------------------------------------------- get_handle
\* (bug variant: the panic carries the message of init)
get_handle_ret_msg(c) ==
    IF OnceCell_get(c) # None THEN Ok(OnceCell_get(c))
    ELSE Panic(EXPECT_NOT_INIT)

\* (bug variant: an unset cell is unwrapped without a check)
get_handle_ret_unchecked(c) == Ok(OnceCell_get(c))

get_handle_ret(c) ==
    IF OnceCell_get(c) # None THEN Ok(OnceCell_get(c))
    ELSE Panic(EXPECT_TOKIO_INIT)

get_handle(t) ==
    /\ Begin(t, "get_handle")
    /\ Return(t, get_handle_ret(TOKIO_RUNTIME_HANDLE))
    /\ loc' = [loc EXCEPT ![t] = NoLoc]
    /\ UNCHANGED <<TOKIO_RUNTIME_HANDLE, runtimes, drivers, tasks, futures,
                   gil, writes>>

\* ------------------------------------------------- init_multi_thread
init_multi_thread(t) ==
    /\ Begin(t, "init_multi_thread")
    /\ \E built \in BOOLEAN :
        IF built
        THEN /\ runtimes' = Append(runtimes, multi_thread)
             /\ loc' = [loc EXCEPT ![t] = [NoLoc EXCEPT !.rt = Len(runtimes) + 1]]
             /\ Goto(t, "imt_init")
             /\ result' = [result EXCEPT ![t] = NoResult]
        ELSE /\ Return(t, Panic(EXPECT_BUILD_MT))
             /\ loc' = [loc EXCEPT ![t] = NoLoc]
             /\ UNCHANGED runtimes
    /\ UNCHANGED <<TOKIO_RUNTIME_HANDLE, drivers, tasks, futures, gil, writes>>

imt_init(t) ==
    /\ pc[t] = "imt_init"
    /\ TOKIO_RUNTIME_HANDLE.state # "running"
    /\ Store(t, init_cell(TOKIO_RUNTIME_HANDLE, loc[t].rt))
    /\ IF init_panics(TOKIO_RUNTIME_HANDLE)
       THEN /\ Return(t, Panic(EXPECT_NOT_INIT))
            /\ runtimes' = DropRuntime(runtimes, loc[t].rt)
            /\ tasks' = Shutdown(tasks, loc[t].rt)
       ELSE /\ Goto(t, "imt_drop")
            /\ UNCHANGED <<result, runtimes, tasks>>
    /\ loc' = [loc EXCEPT ![t].seen = TOKIO_RUNTIME_HANDLE.state]
    /\ UNCHANGED <<op, drivers, futures, gil, calls>>

\* The end of the statement (line 110): the temporary Runtime is dropped.
imt_drop(t) ==
    /\ pc[t] = "imt_drop"
    /\ runtimes' = DropRuntime(runtimes, loc[t].rt)
    /\ tasks' = Shutdown(tasks, loc[t].rt)
    /\ Return(t, Ok(None))
    /\ UNCHANGED <<TOKIO_RUNTIME_HANDLE, op, loc, drivers, futures, gil,
                   calls, writes>>

\* --------------------------------------------- init_multi_thread_once
\* get_or_init: a complete cell is returned as it is; on an incomplete cell
\* the caller becomes the one thread that runs the closure; while another
\* thread runs a closure the caller waits.
\* (bug variant: the closure runs on a complete cell too)
get_or_init_always(c) == TRUE

get_or_init_runs(c) == c.state = "incomplete"

\* (bug variant: a panicking closure leaves the cell claimed for ever)
get_or_init_poisoned(c) == c

\* A closure that panics leaves the cell uninitialized: the next set or
\* get_or_init starts afresh.
get_or_init_unwind(c) == [c EXCEPT !.state = "incomplete"]

\* let mut initialized = false;
\* (bug variant: the flag starts out true)
icto_initial_flag_true == TRUE

icto_initial_flag == FALSE

init_multi_thread_once(t) ==
    /\ Begin(t, "init_multi_thread_once")
    /\ TOKIO_RUNTIME_HANDLE.state # "running"
    /\ loc' = [loc EXCEPT ![t] = [NoLoc EXCEPT !.seen = TOKIO_RUNTIME_HANDLE.state]]
    /\ IF get_or_init_runs(TOKIO_RUNTIME_HANDLE)
       THEN /\ TOKIO_RUNTIME_HANDLE' =
                    [TOKIO_RUNTIME_HANDLE EXCEPT !.state = "running"]
            /\ Goto(t, "imto_closure")
            /\ result' = [result EXCEPT ![t] = NoResult]
       ELSE /\ Return(t, Ok(None))
            /\ UNCHANGED TOKIO_RUNTIME_HANDLE
    /\ UNCHANGED <<runtimes, drivers, tasks, futures, gil, writes>>

\* The closure || multi_thread().handle().clone(): the Runtime is a temporary
\* of the closure body and is dropped when the closure returns the clone.  A
\* panicking closure puts the cell back to incomplete.
imto_closure(t) ==
    /\ pc[t] = "imto_closure"
    /\ \E built \in BOOLEAN :
        IF built
        THEN /\ runtimes' = DropRuntime(Append(runtimes, multi_thread),
                                        Len(runtimes) + 1)
             /\ loc' = [loc EXCEPT ![t].rt = Len(runtimes) + 1]
             /\ Goto(t, "imto_store")
             /\ UNCHANGED <<TOKIO_RUNTIME_HANDLE, result>>
        ELSE /\ TOKIO_RUNTIME_HANDLE' = get_or_init_unwind(TOKIO_RUNTIME_HANDLE)
             /\ Return(t, Panic(EXPECT_BUILD_MT))
             /\ UNCHANGED <<runtimes, loc>>
    /\ UNCHANGED <<op, drivers, tasks, futures, gil, calls, writes>>

\* get_or_init stores what the closure returned and completes the cell.
imto_store(t) ==
    /\ pc[t] = "imto_store"
    /\ Store(t, [state |-> "complete", val |-> loc[t].rt])
    /\ Return(t, Ok(None))
    /\ UNCHANGED <<runtimes, op, loc, drivers, tasks, futures, gil, calls>>

\* ------------------------------------------- init_current_thread_once
init_current_thread_once(t) ==
    /\ Begin(t, "init_current_thread_once")
    /\ TOKIO_RUNTIME_HANDLE.state # "running"
    /\ loc' = [loc EXCEPT ![t] =
                   [NoLoc EXCEPT !.seen = TOKIO_RUNTIME_HANDLE.state,
                                 !.initialized = icto_initial_flag]]
    /\ result' = [result EXCEPT ![t] = NoResult]
    /\ IF get_or_init_runs(TOKIO_RUNTIME_HANDLE)
       THEN /\ TOKIO_RUNTIME_HANDLE' =
                    [TOKIO_RUNTIME_HANDLE EXCEPT !.state = "running"]
            /\ Goto(t, "icto_closure")
       ELSE /\ Goto(t, "icto_check")
            /\ UNCHANGED TOKIO_RUNTIME_HANDLE
    /\ UNCHANGED <<runtimes, drivers, tasks, futures, gil, writes>>

\* The closure: initialized = true; current_thread().handle().clone()
\* (the flag is set before the build, so also when the build panics)
icto_closure(t) ==
    /\ pc[t] = "icto_closure"
    /\ \E built \in BOOLEAN :
        IF built
        THEN /\ runtimes' = DropRuntime(Append(runtimes, current_thread),
                                        Len(runtimes) + 1)
             /\ loc' = [loc EXCEPT ![t].rt = Len(runtimes) + 1,
                                   ![t].initialized = TRUE]
             /\ Goto(t, "icto_store")
             /\ UNCHANGED <<TOKIO_RUNTIME_HANDLE, result>>
        ELSE /\ TOKIO_RUNTIME_HANDLE' = get_or_init_unwind(TOKIO_RUNTIME_HANDLE)
             /\ Return(t, Panic(EXPECT_BUILD_CT))
             /\ loc' = [loc EXCEPT ![t].initialized = TRUE]
             /\ UNCHANGED runtimes
    /\ UNCHANGED <<op, drivers, tasks, futures, gil, calls, writes>>

icto_store(t) ==
    /\ pc[t] = "icto_store"
    /\ Store(t, [state |-> "complete", val |-> loc[t].rt])
    /\ Goto(t, "icto_check")
    /\ UNCHANGED <<runtimes, op, loc, result, drivers, tasks, futures, gil,
                   calls>>

\* if initialized { start_current_thread(); }
\* (bug variant: the driver is started whether or not this call installed)
icto_starts_always(initialized) == TRUE

\* (bug variant: the driver is never started by the idempotent install)
icto_starts_never(initialized) == FALSE

icto_starts(initialized) == initialized

icto_check(t) ==
    /\ pc[t] = "icto_check"
    /\ drivers' = IF icto_starts(loc[t].initialized)
                  THEN start_current_thread(t) ELSE drivers
    /\ Return(t, Ok(None))
    /\ UNCHANGED <<TOKIO_RUNTIME_HANDLE, runtimes, op, loc, tasks, futures,
                   gil, calls, writes>>

\* ------------------------------------------------------------ tasks
\* What a future passed to the bridge does in its last poll: it returns
\* Ok(val), returns Err(val) or panics with message val.
Behaviours == {"ok", "err", "panic"}

\* impl generic::JoinError for task::JoinError: a JoinError is either the
\* panic of the task or its cancellation.
\* (bug variant: no JoinError counts as a panic)
is_panic_never(e) == FALSE

is_panic(e) == e = "panic"

\* What awaiting a task's JoinHandle yields once the task has ended.
JoinOutcome(task) ==
    IF task.st = "aborted"
    THEN [tag |-> "JoinError", e |-> "cancelled", beh |-> "none", val |-> None]
    ELSE IF task.beh = "panic"
    THEN [tag |-> "JoinError", e |-> "panic", beh |-> "none", val |-> task.val]
    ELSE [tag |-> "Ok", e |-> "none", beh |-> task.beh, val |-> task.val]

Joinable(task) == task.st \in {"finished", "settling", "done", "aborted"}

\* The outcome of a task in the foreign error/value convention.
Translate(j) ==
    IF j.tag = "Ok"
    THEN [cat |-> IF j.beh = "ok" THEN "success" ELSE "failure", val |-> j.val]
    ELSE IF is_panic(j.e)
    THEN [cat |-> "panic", val |-> j.val]
    ELSE [cat |-> "cancelled", val |-> None]

\* Handle::spawn on a live executor queues the task.  On an executor that
\* has been shut down the task is never polled: it stays queued for ever or
\* is dropped at once, depending on the tokio release.
\* (bug variant: the future is run to completion inside the call)
SpawnStates_inline(rt) == {"finished"}

SpawnStates(rt) == IF rt.alive THEN {"queued"} ELSE {"queued", "aborted"}

\* TokioRuntime::spawn: get_handle().spawn(async move { fut.await; })
\* (bug variant: the future is spawned twice)
spawn_tasks_twice(ts, h, st, f) ==
    Append(Append(ts, [rt |-> h, st |-> st, beh |-> "none", val |-> None,
                       fut |-> f]),
           [rt |-> h, st |-> st, beh |-> "none", val |-> None, fut |-> f])

spawn_tasks(ts, h, st, f) ==
    Append(ts, [rt |-> h, st |-> st, beh |-> "none", val |-> None, fut |-> f])

spawn(t) ==
    /\ Begin(t, "spawn")
    /\ LET r == get_handle_ret(TOKIO_RUNTIME_HANDLE) IN
       IF r.kind = "panic"
       THEN /\ Return(t, r)
            /\ loc' = [loc EXCEPT ![t] = NoLoc]
            /\ UNCHANGED tasks
       ELSE \E st \in SpawnStates(RuntimeOf(runtimes, r.val)) :
               /\ Len(tasks) < MaxSpawns
               /\ tasks' = spawn_tasks(tasks, r.val, st, None)
               /\ loc' = [loc EXCEPT ![t] = [NoLoc EXCEPT !.task = Len(tasks) + 1]]
               /\ Return(t, Ok(Len(tasks) + 1))
    /\ UNCHANGED <<TOKIO_RUNTIME_HANDLE, runtimes, drivers, futures, gil,
                   writes>>

\* ------------------------------------------------- the executor
\* An executor polls its queue while its Runtime is alive; a current-thread
\* executor needs, in addition, a thread blocked in block_on on it.
Polls(id) ==
    /\ RuntimeOf(runtimes, id).alive
    /\ \/ RuntimeOf(runtimes, id).kind # "current_thread"
       \/ \E d \in 1..Len(drivers) :
              drivers[d].pc = "blocked" /\ drivers[d].h = id

TaskStart(i) ==
    /\ i \in 1..Len(tasks)
    /\ tasks[i].st = "queued"
    /\ Polls(tasks[i].rt)
    /\ tasks' = [tasks EXCEPT ![i].st = "running"]
    /\ UNCHANGED <<TOKIO_RUNTIME_HANDLE, runtimes, pc, op, loc, result,
                   drivers, futures, gil, calls, writes>>

\* The future completes (or panics) in the poll that is under way.
TaskFinish(i) ==
    /\ i \in 1..Len(tasks)
    /\ tasks[i].st = "running"
    /\ \E beh \in Behaviours, val \in Values :
           tasks' = [tasks EXCEPT ![i].st = "finished",
                                  ![i].beh = beh,
                                  ![i].val = val]
    /\ UNCHANGED <<TOKIO_RUNTIME_HANDLE, runtimes, pc, op, loc, result,
                   drivers, futures, gil, calls, writes>>

\* A task that yields after its Runtime was dropped is dropped with it.
TaskAbort(i) ==
    /\ i \in 1..Len(tasks)
    /\ tasks[i].st = "running"
    /\ ~RuntimeOf(runtimes, tasks[i].rt).alive
    /\ tasks' = [tasks EXCEPT ![i].st = "aborted"]
    /\ UNCHANGED <<TOKIO_RUNTIME_HANDLE, runtimes, pc, op, loc, result,
                   drivers, futures, gil, calls, writes>>

\* ------------------------------------------------ run_until_complete
\* drive-to-completion: spawn the task, block on its join handle, translate
\* the outcome.  The caller holds the foreign execution lock when it calls
\* and gives it up while it waits.
run_until_complete(t) ==
    /\ Begin(t, "run_until_complete")
    /\ gil = None
    /\ LET r == get_handle_ret(TOKIO_RUNTIME_HANDLE) IN
       IF r.kind = "panic"
       THEN /\ Return(t, r)
            /\ loc' = [loc EXCEPT ![t] = NoLoc]
            /\ UNCHANGED tasks
       ELSE \E st \in SpawnStates(RuntimeOf(runtimes, r.val)) :
               /\ Len(tasks) < MaxSpawns
               /\ tasks' = spawn_tasks(tasks, r.val, st, None)
               /\ loc' = [loc EXCEPT ![t] = [NoLoc EXCEPT !.task = Len(tasks) + 1]]
               /\ Goto(t, "ruc_join")
               /\ result' = [result EXCEPT ![t] = NoResult]
    /\ UNCHANGED <<TOKIO_RUNTIME_HANDLE, runtimes, drivers, futures, gil,
                   writes>>

ruc_join(t) ==
    /\ pc[t] = "ruc_join"
    /\ gil = None
    /\ Joinable(tasks[loc[t].task])
    /\ Return(t, Reported(Translate(JoinOutcome(tasks[loc[t].task]))))
    /\ UNCHANGED <<TOKIO_RUNTIME_HANDLE, runtimes, op, loc, drivers, tasks,
                   futures, gil, calls, writes>>

\* ---------------------------------------------------- into_coroutine
\* expose-as-coroutine: create a pending BridgeFuture, spawn the task that
\* runs the future, return the awaitable at once.
NewFuture(task) ==
    [st |-> "pending", rep |-> NoReport, task |-> task, settles |-> 0]

into_coroutine(t) ==
    /\ Begin(t, "into_coroutine")
    /\ gil = None
    /\ LET r == get_handle_ret(TOKIO_RUNTIME_HANDLE) IN
       IF r.kind = "panic"
       THEN /\ Return(t, r)
            /\ loc' = [loc EXCEPT ![t] = NoLoc]
            /\ UNCHANGED <<tasks, futures>>
       ELSE \E st \in SpawnStates(RuntimeOf(runtimes, r.val)) :
               /\ Len(tasks) < MaxSpawns
               /\ futures' = Append(futures, NewFuture(Len(tasks) + 1))
               /\ tasks' = spawn_tasks(tasks, r.val, st, Len(futures) + 1)
               /\ loc' = [loc EXCEPT ![t] = [NoLoc EXCEPT !.task = Len(tasks) + 1]]
               /\ Return(t, Ok(Len(futures) + 1))
    /\ UNCHANGED <<TOKIO_RUNTIME_HANDLE, runtimes, drivers, gil, writes>>

\* The foreign execution lock can be taken when no thread holds it.
\* (bug variant: the lock is taken without waiting for its holder)
LockFree_always(g) == TRUE

LockFree(g) == g = None

\* The executor thread that ran task i takes the foreign execution lock ...
SettleAcquire(i) ==
    /\ i \in 1..Len(tasks)
    /\ tasks[i].st = "finished"
    /\ tasks[i].fut # None
    /\ LockFree(gil)
    /\ gil' = i
    /\ tasks' = [tasks EXCEPT ![i].st = "settling"]
    /\ UNCHANGED <<TOKIO_RUNTIME_HANDLE, runtimes, pc, op, loc, result,
                   drivers, futures, calls, writes>>

\* ... resolves or rejects the BridgeFuture with the translated outcome when
\* the future is still pending, drops the outcome when the foreign side has
\* detached, and releases the lock.
Settled(f, rep) ==
    IF f.st = "pending"
    THEN [f EXCEPT !.st = IF rep.cat = "success" THEN "resolved" ELSE "rejected",
                   !.rep = rep,
                   !.settles = @ + 1]
    ELSE f

SettleRelease(i) ==
    /\ i \in 1..Len(tasks)
    /\ tasks[i].st = "settling"
    /\ gil = i
    /\ futures' = [futures EXCEPT ![tasks[i].fut] =
                       Settled(@, Translate(JoinOutcome(tasks[i])))]
    /\ gil' = None
    /\ tasks' = [tasks EXCEPT ![i].st = "done"]
    /\ UNCHANGED <<TOKIO_RUNTIME_HANDLE, runtimes, pc, op, loc, result,
                   drivers, calls, writes>>

\* The foreign side cancels the coroutine or tears its receiver down: the
\* result sink is detached, nothing else.
Cancel(f) ==
    /\ f \in 1..Len(futures)
    /\ futures[f].st = "pending"
    /\ gil = None
    /\ futures' = [futures EXCEPT ![f].st = "cancelled"]
    /\ UNCHANGED <<TOKIO_RUNTIME_HANDLE, runtimes, pc, op, loc, result,
                   drivers, tasks, gil, calls, writes>>

\* ------------------------------------------------------ specification
Next ==
    \/ \E t \in Threads : init(t)
    \/ \E t \in Threads : init_current_thread(t)
    \/ \E t \in Threads : ict_init(t)
    \/ \E t \in Threads : ict_drop(t)
    \/ \E t \in Threads : ict_start(t)
    \/ \E t \in Threads : init_multi_thread(t)
    \/ \E t \in Threads : imt_init(t)
    \/ \E t \in Threads : imt_drop(t)
    \/ \E t \in Threads : init_multi_thread_once(t)
    \/ \E t \in Threads : imto_closure(t)
    \/ \E t \in Threads : imto_store(t)
    \/ \E t \in Threads : init_current_thread_once(t)
    \/ \E t \in Threads : icto_closure(t)
    \/ \E t \in Threads : icto_store(t)
    \/ \E t \in Threads : icto_check(t)
    \/ \E t \in Threads : get_handle(t)
    \/ \E t \in Threads : spawn(t)
    \/ \E t \in Threads : run_until_complete(t)
    \/ \E t \in Threads : ruc_join(t)
    \/ \E t \in Threads : into_coroutine(t)
    \/ \E d \in 1..Len(drivers) : driver_run(d)
    \/ \E i \in 1..Len(tasks) : TaskStart(i)
    \/ \E i \in 1..Len(tasks) : TaskFinish(i)
    \/ \E i \in 1..Len(tasks) : TaskAbort(i)
    \/ \E i \in 1..Len(tasks) : SettleAcquire(i)
    \/ \E i \in 1..Len(tasks) : SettleRelease(i)
    \/ \E f \in 1..Len(futures) : Cancel(f)

Spec == Init /\ [][Next]_vars

\* ===================================================== properties
Strict == {"init", "init_current_thread", "init_multi_thread"}

Once == {"init_multi_thread_once", "init_current_thread_once"}

Bridge == {"spawn", "run_until_complete", "into_coroutine"}

Installed == TOKIO_RUNTIME_HANDLE.state = "complete"

\* The step is one taken by call t.
StepOf(t) == pc'[t] # pc[t]

\* C1: whatever the interleaving of the five init entry points, at most one
\* call ever stores into TOKIO_RUNTIME_HANDLE, and once the cell holds a
\* handle no later step changes the cell.
C1_WrittenOnce ==
    /\ [](Len(writes) <= 1)
    /\ [][Installed => TOKIO_RUNTIME_HANDLE' = TOKIO_RUNTIME_HANDLE]_vars

\* C1 witness: the cell holds the handle of one call while a strict install
\* and an idempotent install of other calls have come and gone.
C1_Witness ==
    /\ Installed
    /\ Len(writes) = 1
    /\ \E t \in Threads, u \in Threads :
        /\ t # writes[1].by /\ u # writes[1].by
        /\ op[t] \in Strict /\ pc[t] = "done"
        /\ op[u] \in Once /\ pc[u] = "done"

\* C2: a strict install (init, init_current_thread, init_multi_thread) whose
\* set step finds a handle installed panics with the already-initialized
\* message and leaves the cell exactly as it was.
C2_StrictFails ==
    [][\A t \in Threads :
          (/\ StepOf(t)
           /\ op'[t] \in Strict
           /\ pc[t] \in {"idle", "ict_init", "imt_init"}
           /\ ~(pc[t] = "idle" /\ op'[t] # "init")
           /\ Installed)
          => /\ result'[t] = Panic(EXPECT_NOT_INIT)
             /\ pc'[t] = "done"
             /\ TOKIO_RUNTIME_HANDLE' = TOKIO_RUNTIME_HANDLE]_vars

\* C2 witness: a strict install has panicked on the installed cell, which
\* still holds the handle of the first install.
C2_Witness ==
    /\ Installed
    /\ Len(writes) = 1
    /\ TOKIO_RUNTIME_HANDLE.val = writes[1].h
    /\ \E t \in Threads :
        /\ op[t] \in Strict
        /\ result[t] = Panic(EXPECT_NOT_INIT)
        /\ loc[t].rt # TOKIO_RUNTIME_HANDLE.val

\* C3: an idempotent install never fails because a handle is installed; one
\* that finds the cell complete builds nothing, stores nothing and returns
\* normally; one that finds it incomplete and returns has built the runtime
\* whose handle the cell now holds.  After any number of returned calls the
\* cell is complete with the handle of the one store.
C3_Idempotent ==
    \A t \in Threads :
        op[t] \in Once =>
            /\ result[t].kind = "panic" =>
                   result[t].msg \in {EXPECT_BUILD_CT, EXPECT_BUILD_MT}
            /\ loc[t].seen = "complete" =>
                   /\ loc[t].rt = None
                   /\ result[t].kind # "panic"
                   /\ Installed
                   /\ Len(writes) = 1 /\ writes[1].by # t
            /\ (pc[t] = "done" /\ result[t].kind = "ok") =>
                   /\ Installed
                   /\ Len(writes) = 1
                   /\ TOKIO_RUNTIME_HANDLE.val = writes[1].h
                   /\ loc[t].seen = "incomplete" =>
                          /\ writes[1].by = t
                          /\ TOKIO_RUNTIME_HANDLE.val = loc[t].rt

\* C3 witness: one idempotent install built and installed, and two later
\* ones (one of each configuration is possible) returned as no-ops.
C3_Witness ==
    \E t \in Threads, u \in Threads, v \in Threads :
        /\ u # v
        /\ op[t] \in Once /\ op[u] \in Once /\ op[v] \in Once
        /\ pc[t] = "done" /\ pc[u] = "done" /\ pc[v] = "done"
        /\ loc[t].seen = "incomplete" /\ result[t].kind = "ok"
        /\ loc[u].seen = "complete" /\ result[u].kind = "ok"
        /\ loc[v].seen = "complete" /\ result[v].kind = "ok"

\* C4: get_handle on a cell that no install has completed panics with the
\* must-be-initialized message; on an installed cell it returns the handle
\* of the one store ever made, whatever calls have failed or been no-ops
\* since.
C4_GetHandle ==
    [][\A t \in Threads :
          (StepOf(t) /\ op'[t] = "get_handle")
          => IF Installed
             THEN /\ result'[t] = Ok(TOKIO_RUNTIME_HANDLE.val)
                  /\ Len(writes) = 1
                  /\ result'[t].val = writes[1].h
             ELSE result'[t] = Panic(EXPECT_TOKIO_INIT)]_vars

\* C4 witness: after an install and a later strict install that panicked,
\* get_handle has returned the handle of the first.
C4_Witness ==
    \E t \in Threads, u \in Threads :
        /\ u < t
        /\ op[u] \in Strict /\ result[u] = Panic(EXPECT_NOT_INIT)
        /\ op[t] = "get_handle"
        /\ result[t] = Ok(writes[1].h)
        /\ writes[1].by # u

\* C5: at most one keep-alive thread is ever started, and only by the
\* init_current_thread or init_current_thread_once call that made the one
\* store into the cell.
C5_OneDriver ==
    /\ Len(drivers) <= 1
    /\ \A d \in 1..Len(drivers) :
        /\ op[drivers[d].by] \in {"init_current_thread",
                                  "init_current_thread_once"}
        /\ Len(writes) = 1
        /\ writes[1].by = drivers[d].by
        /\ writes[1].h = drivers[d].rt

\* C5 witness: the driver exists, a strict single-threaded install has
\* panicked on the installed cell and an idempotent one has returned as a
\* no-op.
C5_Witness ==
    /\ Len(drivers) = 1
    /\ \E t \in Threads, u \in Threads :
        /\ t # drivers[1].by /\ u # drivers[1].by
        /\ op[t] = "init_current_thread"
        /\ result[t] = Panic(EXPECT_NOT_INIT)
        /\ op[u] = "init_current_thread_once"
        /\ loc[u].seen = "complete" /\ result[u].kind = "ok"

\* The calls that installed the single-threaded configuration and returned.
SingleThreadedInstalls ==
    {t \in Threads :
        /\ op[t] \in {"init_current_thread", "init_current_thread_once"}
        /\ pc[t] = "done" /\ result[t].kind = "ok"
        /\ Len(writes) = 1 /\ writes[1].by = t}

\* C6: keep-alive.  Once init_current_thread or init_current_thread_once has
\* installed the single-threaded configuration and returned, the executor
\* behind the installed handle is alive, and no task spawned on it through
\* the handle is dropped without having been run.
C6_KeepAlive ==
    SingleThreadedInstalls # {} =>
        /\ runtimes[TOKIO_RUNTIME_HANDLE.val].alive
        /\ \A i \in 1..Len(tasks) :
               tasks[i].rt = TOKIO_RUNTIME_HANDLE.val => tasks[i].st # "aborted"

\* C7: a task-bridge call (TokioRuntime::spawn, run_until_complete,
\* into_coroutine) begun while the cell is not installed panics with the
\* must-be-initialized message and submits no task and creates no future;
\* and no step of a task-bridge call ever changes the cell or builds a
\* runtime.
C7_BridgeNeedsInit ==
    [][\A t \in Threads :
          (StepOf(t) /\ op'[t] \in Bridge)
          => /\ TOKIO_RUNTIME_HANDLE' = TOKIO_RUNTIME_HANDLE
             /\ writes' = writes
             /\ runtimes' = runtimes
             /\ (pc[t] = "idle" /\ ~Installed) =>
                    /\ result'[t] = Panic(EXPECT_TOKIO_INIT)
                    /\ pc'[t] = "done"
                    /\ tasks' = tasks
                    /\ futures' = futures]_vars

\* C7 witness: each of the three task-bridge operations has panicked on the
\* empty registry, which is still empty, and no task exists.
C7_Witness ==
    /\ TOKIO_RUNTIME_HANDLE = OnceCell_new
    /\ tasks = <<>> /\ futures = <<>>
    /\ \A o \in Bridge :
        \E t \in Threads :
            op[t] = o /\ result[t] = Panic(EXPECT_TOKIO_INIT)

\* C8: a run_until_complete call that has returned reports exactly one of
\* success, application failure, panic and cancellation, decided by what its
\* task did: the value of a task that returned Ok, the unchanged failure of
\* a task that returned Err, a panic-tagged failure for a task that
\* panicked, and cancellation for a task dropped unrun.
C8_Outcome ==
    \A t \in Threads :
        (op[t] = "run_until_complete" /\ pc[t] = "done"
            /\ result[t].kind = "ok") =>
            LET task == tasks[loc[t].task]
                rep == result[t].rep
            IN  /\ rep.cat \in {"success", "failure", "panic", "cancelled"}
                /\ task.st = "aborted" <=> rep.cat = "cancelled"
                /\ task.st # "aborted" =>
                       /\ task.beh = "ok" <=> rep.cat = "success"
                       /\ task.beh = "err" <=> rep.cat = "failure"
                       /\ task.beh = "panic" <=> rep.cat = "panic"
                       /\ rep.val = task.val

\* C8 witness: two run_until_complete calls have returned, one with the
\* value 42 of its task, one with the panic of its task.
C8_Witness ==
    \E t \in Threads, u \in Threads :
        /\ op[t] = "run_until_complete" /\ op[u] = "run_until_complete"
        /\ pc[t] = "done" /\ pc[u] = "done"
        /\ result[t].kind = "ok" /\ result[u].kind = "ok"
        /\ tasks[loc[t].task].beh = "ok"
        /\ result[t].rep = [cat |-> "success", val |-> 42]
        /\ tasks[loc[u].task].beh = "panic"
        /\ result[u].rep = [cat |-> "panic", val |-> 42]

\* The tasks bound to BridgeFuture f.
TasksOf(f) == {i \in 1..Len(tasks) : tasks[i].fut = f}

\* C9: every into_coroutine call that returned created one BridgeFuture and
\* one task, bound to each other and to nothing else; a BridgeFuture is
\* settled at most once and, once no longer pending, never pending again;
\* a settled one carries the category and value its task's future produced.
C9_SettledOnce ==
    /\ Len(futures) =
           Cardinality({t \in Threads : op[t] = "into_coroutine"
                                         /\ result[t].kind = "ok"})
    /\ \A t \in Threads :
           (op[t] = "into_coroutine" /\ result[t].kind = "ok") =>
               /\ result[t].val \in 1..Len(futures)
               /\ futures[result[t].val].task = loc[t].task
    /\ \A f \in 1..Len(futures) :
        LET fu == futures[f]
        IN  /\ TasksOf(f) = {fu.task}
            /\ fu.settles <= 1
            /\ fu.st \in {"pending", "cancelled"} =>
                   fu.settles = 0 /\ fu.rep = NoReport
            /\ fu.st \in {"resolved", "rejected"} =>
                   /\ fu.settles = 1
                   /\ tasks[fu.task].st = "done"
                   /\ fu.st = "resolved" <=> tasks[fu.task].beh = "ok"
                   /\ fu.rep.cat = (CASE tasks[fu.task].beh = "ok" -> "success"
                                      [] tasks[fu.task].beh = "err" -> "failure"
                                      [] OTHER -> "panic")
                   /\ tasks[fu.task].beh \in Behaviours
                   /\ fu.rep.val = tasks[fu.task].val

\* C9 witness: two coroutines, one resolved with its task's value and one
\* rejected with its task's failure.
C9_Witness ==
    \E f \in 1..Len(futures), g \in 1..Len(futures) :
        /\ futures[f].st = "resolved"
        /\ futures[f].rep = [cat |-> "success", val |-> 41]
        /\ futures[g].st = "rejected"
        /\ futures[g].rep = [cat |-> "failure", val |-> 42]

\* C10: the native task of a coroutine that the foreign side has cancelled
\* is not aborted (it is never dropped before it has run to completion); its
\* result is discarded; and when it has run, the executor thread has
\* released the lock and the executor is still there for later tasks.
C10_NotAborted ==
    \A f \in 1..Len(futures) :
        futures[f].st = "cancelled" =>
            LET task == tasks[futures[f].task]
            IN  /\ task.st # "aborted"
                /\ futures[f].rep = NoReport /\ futures[f].settles = 0
                /\ task.st = "done" =>
                       /\ gil # futures[f].task
                       /\ RuntimeOf(runtimes, task.rt).alive

\* The configuration an init entry point installs.
EntryKind(name) ==
    CASE name = "init" -> "external"
      [] name \in {"init_current_thread", "init_current_thread_once"} ->
             "current_thread"
      [] OTHER -> "multi_thread"

\* The calls that have run to their end after finding a handle installed.
FoundInstalled(t) == pc[t] = "done" /\ loc[t].seen = "complete"

\* C11 as stated: each of the three configurations (external handle,
\* single-threaded, multi-threaded) has an entry point whose calls, made
\* with a handle installed, all return normally.
C11_EveryKindHasOnce ==
    \A k \in {"external", "current_thread", "multi_thread"} :
        \E e \in Strict \cup Once :
            /\ EntryKind(e) = k
            /\ \A t \in Threads :
                   (op[t] = e /\ FoundInstalled(t)) => result[t].kind = "ok"

\* C11: only the single-threaded and the multi-threaded configuration have
\* an idempotent variant.  A call of either, made with a handle installed,
\* returns normally having built nothing, stored nothing and started no
\* driver; installing an external handle has the strict form only, and like
\* the other strict forms it panics with the already-initialized message.
C11_OnceVariants ==
    /\ {EntryKind(e) : e \in Once} = {"current_thread", "multi_thread"}
    /\ \A t \in Threads :
           FoundInstalled(t) =>
               /\ op[t] \in Once =>
                      /\ result[t] = Ok(None)
                      /\ loc[t].rt = None
                      /\ ~ loc[t].initialized
                      /\ \A w \in 1..Len(writes) : writes[w].by # t
                      /\ \A d \in 1..Len(drivers) : drivers[d].by # t
               /\ op[t] \in Strict => result[t] = Panic(EXPECT_NOT_INIT)

\* C11 witness: with a handle installed, an idempotent install has returned
\* as a no-op and an install of an external handle has panicked.
C11_Witness ==
    \E t \in Threads, u \in Threads :
        /\ FoundInstalled(t) /\ op[t] \in Once /\ result[t].kind = "ok"
        /\ FoundInstalled(u) /\ op[u] = "init" /\ result[u].kind = "panic"

\* The executor threads that hold the foreign execution lock: those in the
\* step that settles the BridgeFuture of their task.
LockHolders == {i \in 1..Len(tasks) : tasks[i].st = "settling"}

C13_NeverBlocks ==
    [][\A t \in Threads :
          (StepOf(t) /\ op'[t] = "into_coroutine") =>
              /\ pc[t] = "idle" /\ pc'[t] = "done"
              /\ result'[t].kind \in {"ok", "panic"}
              /\ result'[t].kind = "ok" =>
                     /\ Len(futures') = Len(futures) + 1
                     /\ Len(tasks') = Len(tasks) + 1
                     /\ result'[t].val = Len(futures')
                     /\ loc'[t].task = Len(tasks')
                     /\ futures'[Len(futures')] = NewFuture(Len(tasks'))
                     /\ tasks'[Len(tasks')].st \in {"queued", "aborted"}
                     /\ tasks'[Len(tasks')].beh = "none"
                     /\ tasks'[Len(tasks')].fut = Len(futures')
                     /\ \A i \in 1..Len(tasks) : tasks'[i] = tasks[i]
                     /\ \A f \in 1..Len(futures) : futures'[f] = futures[f]
      ]_vars

\* C13 witness: into_coroutine has returned its awaitable while, on a live
\* executor, its task is still queued and the awaitable pending, and a task
\* spawned earlier is still running.
C13_Witness ==
    \E t \in Threads, j \in 1..Len(tasks) :
        /\ op[t] = "into_coroutine" /\ pc[t] = "done"
        /\ result[t].kind = "ok"
        /\ j < loc[t].task
        /\ tasks[j].st = "running"
        /\ tasks[loc[t].task].st = "queued"
        /\ RuntimeOf(runtimes, tasks[loc[t].task].rt).alive
        /\ futures[result[t].val].st = "pending"

\* The call ended in the panic of a failed executor build.
BuildFailed(t) ==
    /\ pc[t] = "done"
    /\ result[t].kind = "panic"
    /\ result[t].msg \in {EXPECT_BUILD_CT, EXPECT_BUILD_MT}

\* The call is inside get_or_init, between claiming the cell and completing
\* it.
InClosure(t) ==
    pc[t] \in {"imto_closure", "imto_store", "icto_closure", "icto_store"}

\* C14: a call whose executor build failed has panicked, holds no runtime,
\* has stored nothing and has started no driver.  A strict call fails before
\* it reaches the registry; an idempotent one fails only when it found the
\* registry empty, and leaves it empty and unclaimed: the cell is claimed
\* only while some call is inside get_or_init, and a cell that is not
\* complete holds nothing and has never been written.
C14_BuildFailure ==
    /\ \A t \in Threads :
           BuildFailed(t) =>
               /\ op[t] \in (Strict \cup Once) \ {"init"}
               /\ loc[t].rt = None
               /\ \A w \in 1..Len(writes) : writes[w].by # t
               /\ \A d \in 1..Len(drivers) : drivers[d].by # t
               /\ op[t] \in Strict => loc[t].seen = "none"
               /\ op[t] \in Once => loc[t].seen = "incomplete"
    /\ TOKIO_RUNTIME_HANDLE.state = "running" <=>
           \E t \in Threads : InClosure(t)
    /\ ~Installed =>
           /\ TOKIO_RUNTIME_HANDLE.val = None
           /\ writes = <<>>
           /\ drivers = <<>>

\* C14 witness: the build failed inside an idempotent install and inside a
\* strict install, and a later idempotent install found the registry empty
\* and installed its handle.
C14_Witness ==
    \E t \in Threads, u \in Threads, v \in Threads :
        /\ BuildFailed(t) /\ op[t] \in Once
        /\ BuildFailed(u) /\ op[u] \in Strict
        /\ t < v /\ u < v
        /\ op[v] \in Once /\ pc[v] = "done" /\ result[v].kind = "ok"
        /\ loc[v].seen = "incomplete"
        /\ Installed /\ TOKIO_RUNTIME_HANDLE.val = loc[v].rt
        /\ Len(writes) = 1 /\ writes[1].by = v

\* The call is init_current_thread_once and its get_or_init has returned.
AfterGetOrInit(t) ==
    /\ op[t] = "init_current_thread_once"
    /\ \/ pc[t] = "icto_check"
       \/ pc[t] = "done" /\ result[t].kind = "ok"

\* C15: once get_or_init has returned in init_current_thread_once, the flag
\* initialized is true exactly when this call's closure built the runtime
\* whose handle this call stored, which is the one store ever made and the
\* handle the registry holds.
C15_InitializedFlag ==
    \A t \in Threads :
        AfterGetOrInit(t) =>
            (loc[t].initialized <=>
                 /\ loc[t].rt # None
                 /\ Installed
                 /\ TOKIO_RUNTIME_HANDLE.val = loc[t].rt
                 /\ Len(writes) = 1
                 /\ writes[1] = [by |-> t, h |-> loc[t].rt])

\* C15 witness: two calls of init_current_thread_once are past get_or_init
\* and have not returned yet, one with the flag set and one without, while
\* a strict install has panicked on the installed registry.
C15_Witness ==
    \E t \in Threads, u \in Threads, v \in Threads :
        /\ op[t] = "init_current_thread_once" /\ pc[t] = "icto_check"
        /\ loc[t].initialized
        /\ op[u] = "init_current_thread_once" /\ pc[u] = "icto_check"
        /\ ~ loc[u].initialized
        /\ op[v] \in Strict /\ result[v] = Panic(EXPECT_NOT_INIT)

\* The registry holds the handle of a single-threaded executor (only
\* init_current_thread and init_current_thread_once install one).
SingleThreadedInstalled ==
    /\ Installed
    /\ RuntimeOf(runtimes, TOKIO_RUNTIME_HANDLE.val).kind = "current_thread"

\* A keep-alive driver thread has been spawned for the installed executor.
DriverStarted ==
    \E d \in 1..Len(drivers) : drivers[d].rt = TOKIO_RUNTIME_HANDLE.val

\* A call of init_current_thread_once has returned normally.
OnceReturned(t) ==
    /\ op[t] = "init_current_thread_once"
    /\ pc[t] = "done"
    /\ result[t].kind = "ok"

\* C16 as stated: whenever a call of init_current_thread_once has returned
\* normally and the registry holds a single-threaded executor, the driver
\* thread of that executor has been started, whichever call installed it.
C16_DriverStartedOnReturn ==
    \A t \in Threads :
        (OnceReturned(t) /\ SingleThreadedInstalled) => DriverStarted

\* C16: when a call of init_current_thread_once has returned normally and
\* the registry holds a single-threaded executor, the driver of that
\* executor has been started by the installing call provided the installing
\* call has itself returned; in particular it has when the returned call is
\* the installer.
C16_DriverStartedByInstaller ==
    \A t \in Threads :
        (OnceReturned(t) /\ SingleThreadedInstalled) =>
            LET i == writes[1].by
            IN  /\ Len(writes) = 1
                /\ op[i] \in {"init_current_thread", "init_current_thread_once"}
                /\ (pc[i] = "done" /\ result[i].kind = "ok") =>
                       \E d \in 1..Len(drivers) :
                           /\ drivers[d].by = i
                           /\ drivers[d].rt = TOKIO_RUNTIME_HANDLE.val

\* C16 witness: a call of init_current_thread_once that installed nothing
\* has returned, the call of init_current_thread_once that installed has
\* returned too, and its driver is there.
C16_Witness ==
    \E t \in Threads, i \in Threads :
        /\ OnceReturned(t) /\ SingleThreadedInstalled
        /\ i = writes[1].by /\ i # t
        /\ OnceReturned(i)
        /\ \E d \in 1..Len(drivers) : drivers[d].by = i

\* C17: whenever a keep-alive driver thread exists, the registry is complete
\* and holds the handle of the single-threaded runtime built by the call
\* that spawned the driver, and that call made the one store.  The driver's
\* get().unwrap() has not panicked, and a driver that blocks does so on that
\* handle, never on a multi-threaded or external one.
C17_DriverHandle ==
    \A d \in 1..Len(drivers) :
        /\ Installed
        /\ Len(writes) = 1
        /\ writes[1] = [by |-> drivers[d].by, h |-> drivers[d].rt]
        /\ TOKIO_RUNTIME_HANDLE.val = drivers[d].rt
        /\ drivers[d].rt \in 1..Len(runtimes)
        /\ runtimes[drivers[d].rt].kind = "current_thread"
        /\ op[drivers[d].by] \in {"init_current_thread",
                                  "init_current_thread_once"}
        /\ drivers[d].pc \in {"spawned", "blocked"}
        /\ drivers[d].pc = "blocked" => drivers[d].h = drivers[d].rt

\* C17 witness: the driver of the installing call blocks on the installed
\* handle, after a strict single-threaded install has panicked and an
\* idempotent one has returned without installing.
C17_Witness ==
    \E d \in 1..Len(drivers), u \in Threads, v \in Threads :
        /\ drivers[d].pc = "blocked"
        /\ drivers[d].h = TOKIO_RUNTIME_HANDLE.val
        /\ op[u] = "init_current_thread"
        /\ result[u] = Panic(EXPECT_NOT_INIT)
        /\ op[v] = "init_current_thread_once"
        /\ pc[v] = "done" /\ ~ loc[v].initialized

\* The runtimes that current_thread() and multi_thread() have built.
FactoryBuilt == {r \in 1..Len(runtimes) : runtimes[r].kind # "external"}

\* No strict install has been called and no build has failed.
OnlyOnceCalls ==
    \A t \in Threads : op[t] \notin Strict /\ ~BuildFailed(t)

\* C18: while only idempotent installs have been called and no build has
\* failed, the factories have built at most one runtime, exactly one as soon
\* as one of the calls has returned, and it is the runtime of the call that
\* found the registry empty; a call that found a handle installed has built
\* none.  By contrast a strict single- or multi-threaded install that has
\* reached the registry has built its runtime already, also when it finds a
\* handle installed.
C18_FactoryOnce ==
    /\ OnlyOnceCalls =>
           /\ Cardinality(FactoryBuilt) <= 1
           /\ \A t \in Threads :
                  /\ (op[t] \in Once /\ pc[t] = "done") =>
                         /\ Cardinality(FactoryBuilt) = 1
                         /\ Len(runtimes) = 1
                  /\ (op[t] \in Once /\ loc[t].rt # None) =>
                         /\ loc[t].seen = "incomplete"
                         /\ FactoryBuilt = {loc[t].rt}
    /\ \A t \in Threads :
           /\ (op[t] \in Once /\ loc[t].seen = "complete") => loc[t].rt = None
           /\ (op[t] \in Strict \ {"init"} /\ loc[t].seen # "none") =>
                  /\ loc[t].rt \in FactoryBuilt
                  /\ runtimes[loc[t].rt].kind = EntryKind(op[t])

\* C18 witness: three idempotent installs of both configurations and nothing
\* else have returned, two of them having found the handle installed, and
\* one runtime has been built.
C18_Witness ==
    /\ OnlyOnceCalls
    /\ \A t \in Threads : op[t] \in Once /\ pc[t] = "done"
    /\ \E t \in Threads, u \in Threads :
           /\ op[t] # op[u]
           /\ loc[t].seen = "complete" /\ loc[u].seen = "complete"
    /\ Cardinality(FactoryBuilt) = 1

====
